---- MODULE Spec2Model ----
(***************************************************************************)
(* django-xrechnung: the invoice record store (XRechnungInvoice and        *)
(* XRechnungLineItem with their save() overrides and constraints), the     *)
(* admin's read-only rule, explicit validation, the JSON/XML endpoints,    *)
(* the filtered list page and the configuration, as a state machine.       *)
(*                                                                         *)
(* Decimals are records [v, dp]: the coefficient and the number of         *)
(* fractional digits, so Decimal("119.00") is [v |-> 11900, dp |-> 2] and  *)
(* the integer default 0 is [v |-> 0, dp |-> 0].                           *)
(***************************************************************************)
EXTENDS Integers, Sequences, FiniteSets, TLC

VARIABLES invoices, line_items, nextInvoiceId, nextItemId, clock, inst, last,
          DEFAULT_CONFIG, settings, pyproject, tomllib, _config

\* the configuration: the class attribute DEFAULT_CONFIG, the Django settings,
\* the file pyproject.toml under BASE_DIR, whether a TOML parser can be
\* imported, and the _config of the module's XRechnungConfig instance
confvars == <<DEFAULT_CONFIG, settings, pyproject, tomllib, _config>>

vars == <<invoices, line_items, nextInvoiceId, nextItemId, clock, inst, last,
          DEFAULT_CONFIG, settings, pyproject, tomllib, _config>>

(***************************************************************************)
(* Bounds of the model.                                                    *)
(***************************************************************************)
\* the store hands out invoice ids 1..MaxInvoiceId, then creates stop
MaxInvoiceId == 2
\* the store hands out line item ids 1..MaxItemId, then creates stop
MaxItemId == 2
\* invoice rows are inserted at the times 1..MaxClock, then inserts stop
MaxClock == 2

Writers == {"w1", "w2"}

(***************************************************************************)
(* Python values.                                                          *)
(***************************************************************************)
None == [null |-> TRUE]

\* an instance that was never saved, or was deleted, has pk None
NoPk == 0

NoObject == [model |-> "none"]

D(v, dp) == [v |-> v, dp |-> dp]

RECURSIVE Pow10(_)
Pow10(n) == IF n = 0 THEN 1 ELSE 10 * Pow10(n - 1)

Max(a, b) == IF a >= b THEN a ELSE b

\* bool(x) of a Decimal or None: None and every zero are falsy
Truthy(x) == x # None /\ x.v # 0

\* Decimal.__sub__: exact, the result has the larger number of fractional digits
DecSub(a, b) ==
    LET dp == Max(a.dp, b.dp)
    IN  D(a.v * Pow10(dp - a.dp) - b.v * Pow10(dp - b.dp), dp)

\* Decimal.__mul__: exact, the fractional digits add up
DecMul(a, b) == D(a.v * b.v, a.dp + b.dp)

\* numeric equality of two Decimals (Decimal.__eq__), None equal only to None
DecEq(a, b) ==
    IF a = None \/ b = None THEN a = b
    ELSE LET dp == Max(a.dp, b.dp)
         IN  a.v * Pow10(dp - a.dp) = b.v * Pow10(dp - b.dp)

\* what a DecimalField(decimal_places = places) column holds for x: the value
\* quantized to `places` fractional digits, ties to even; None stays NULL.
\* The amounts of this model stay far below max_digits.
Quantize(x, places) ==
    IF x = None THEN None
    ELSE IF x.dp <= places THEN D(x.v * Pow10(places - x.dp), places)
    ELSE LET k    == Pow10(x.dp - places)
             q    == x.v \div k
             r    == x.v % k
             up   == 2 * r > k \/ (2 * r = k /\ q % 2 = 1)
         IN  D(IF up THEN q + 1 ELSE q, places)

\* str(Decimal): the sign, the integer digits and exactly dp fractional digits
DecStr(x) ==
    IF x = None THEN [str |-> "None"]
    ELSE LET a == IF x.v < 0 THEN -x.v ELSE x.v
         IN  [negative |-> x.v < 0, int |-> a \div Pow10(x.dp),
              places |-> x.dp, frac |-> a % Pow10(x.dp)]

\* a calendar date, and the time of an insert
Date(n) == [day |-> n]

Time(n) == [t |-> n]

\* date.isoformat() and str(date): the text YYYY-MM-DD of the date
isoformat(d) == [iso8601 |-> d.day]

(***************************************************************************)
(* config.py: XRechnungConfig. A configuration value is a record of its    *)
(* type and content, a mapping is a function of its keys. A dict object is *)
(* a record of its items and of whether it is the DEFAULT_CONFIG object.   *)
(***************************************************************************)
StrValue(x) == [str |-> x]

IntValue(x) == [int |-> x]

FloatValue(x) == [float |-> x]

BoolValue(x) == [bool |-> x]

\* the literal of DEFAULT_CONFIG
DefaultConfig ==
    [CURRENCY                  |-> StrValue("EUR"),
     DEFAULT_TAX_RATE          |-> FloatValue("19.00"),
     PAGINATION_SIZE           |-> IntValue(20),
     XML_VALIDATION            |-> BoolValue(TRUE),
     REQUIRE_TAX_ID            |-> BoolValue(FALSE),
     DATE_FORMAT               |-> StrValue("%Y-%m-%d"),
     DECIMAL_PLACES            |-> IntValue(2),
     MAX_INVOICE_NUMBER_LENGTH |-> IntValue(100),
     ALLOW_NEGATIVE_AMOUNTS    |-> BoolValue(FALSE),
     XML_NAMESPACE             |->
         [ubl |-> StrValue("urn:oasis:names:specification:ubl:schema:xsd:Invoice-2"),
          cac |-> StrValue("urn:oasis:names:specification:ubl:schema:xsd:CommonAggregateComponents-2"),
          cbc |-> StrValue("urn:oasis:names:specification:ubl:schema:xsd:CommonBasicComponents-2")]]

\* dict.get(key, default)
dict_get(d, key, default) == IF key \in DOMAIN d THEN d[key] ELSE default

\* the items of a dict after dict.update(other)
update(items, other) ==
    [k \in DOMAIN items \cup DOMAIN other |->
        IF k \in DOMAIN other THEN other[k] ELSE items[k]]

\* self.DEFAULT_CONFIG.copy(): a new dict object with the same items
copy(items) == [is_DEFAULT_CONFIG |-> FALSE, items |-> items]

\* _load_from_pyproject: {} without a TOML parser, without the file and
\* after any error of reading it, else data.get("tool", {}) and of that
\* .get("django-xrechnung", {})
_load_from_pyproject ==
    IF ~tomllib THEN <<>>
    ELSE IF ~pyproject.exists THEN <<>>
    ELSE IF ~pyproject.parses THEN <<>>
    ELSE dict_get(dict_get(pyproject.data, "tool", <<>>), "django-xrechnung", <<>>)

\* _load_config that applies the settings after the manifest
_load_config_settings_last ==
    LET config           == copy(DEFAULT_CONFIG)
        django_config    == IF settings.defined THEN settings.DJANGO_XRECHNUNG ELSE <<>>
        pyproject_config == _load_from_pyproject
        manifest         == IF pyproject_config # <<>>
                            THEN [config EXCEPT !.items = update(@, pyproject_config)]
                            ELSE config
    IN  [manifest EXCEPT !.items = update(@, django_config)]

\* _load_config: a copy of the defaults, updated with the settings, then
\* with the manifest when that is not empty
_load_config ==
    LET config           == copy(DEFAULT_CONFIG)
        django_config    == IF settings.defined THEN settings.DJANGO_XRECHNUNG ELSE <<>>
        updated          == [config EXCEPT !.items = update(@, django_config)]
        pyproject_config == _load_from_pyproject
    IN  IF pyproject_config # <<>>
        THEN [updated EXCEPT !.items = update(@, pyproject_config)]
        ELSE updated

\* XRechnungConfig.get
get(key, default) == dict_get(_config.items, key, default)

\* XRechnungConfig(): __init__ loads the configuration; an update of a dict
\* that is the DEFAULT_CONFIG object changes DEFAULT_CONFIG
XRechnungConfig ==
    /\ _config' = _load_config
    /\ DEFAULT_CONFIG' = IF _load_config.is_DEFAULT_CONFIG
                         THEN _load_config.items ELSE DEFAULT_CONFIG
    /\ last' = [op |-> "load_config", w |-> "app"]
    /\ UNCHANGED <<invoices, line_items, nextInvoiceId, nextItemId, clock, inst,
                   settings, pyproject, tomllib>>

\* a caller reads config.get(key, default)
ConfigGet(key, default) ==
    /\ "items" \in DOMAIN _config
    /\ last' = [op |-> "config_get", w |-> "app", key |-> key, default |-> default,
                value |-> get(key, default)]
    /\ UNCHANGED <<invoices, line_items, nextInvoiceId, nextItemId, clock, inst>>
    /\ UNCHANGED confvars

(***************************************************************************)
(* XRechnungInvoice: construction, save(), delete(), objects.get().        *)
(***************************************************************************)
\* a keyword argument of a constructor call, or the field's default
Kwarg(kw, f, default) == IF f \in DOMAIN kw THEN kw[f] ELSE default

\* the default of currency, a text of three letters
EUR == <<"E", "U", "R">>

\* XRechnungInvoice(**kw): an unsaved instance, omitted fields at their defaults
XRechnungInvoice(kw) ==
    [model           |-> "invoice",
     id              |-> NoPk,
     invoice_number  |-> kw.invoice_number,
     invoice_date    |-> kw.invoice_date,
     due_date        |-> Kwarg(kw, "due_date", None),
     supplier_name   |-> kw.supplier_name,
     supplier_tax_id |-> Kwarg(kw, "supplier_tax_id", ""),
     buyer_name      |-> kw.buyer_name,
     buyer_tax_id    |-> Kwarg(kw, "buyer_tax_id", ""),
     total_amount    |-> kw.total_amount,
     tax_amount      |-> Kwarg(kw, "tax_amount", D(0, 0)),
     net_amount      |-> Kwarg(kw, "net_amount", None),
     currency        |-> Kwarg(kw, "currency", EUR),
     xml_content     |-> Kwarg(kw, "xml_content", ""),
     created_at      |-> None]

AmountPlaces == 2

\* the derivation of XRechnungInvoice.save, recomputing on every save
InvoiceDeriveAlways(o) ==
    IF Truthy(o.total_amount) /\ Truthy(o.tax_amount)
    THEN [o EXCEPT !.net_amount = DecSub(o.total_amount, o.tax_amount)]
    ELSE o

\* the derivation with `is not None` in place of the truth of the amounts
InvoiceDeriveZeroIsValue(o) ==
    IF o.net_amount = None /\ o.total_amount # None /\ o.tax_amount # None
    THEN [o EXCEPT !.net_amount = DecSub(o.total_amount, o.tax_amount)]
    ELSE o

\* the first two lines of XRechnungInvoice.save
InvoiceDerive(o) ==
    IF o.net_amount = None /\ Truthy(o.total_amount) /\ Truthy(o.tax_amount)
    THEN [o EXCEPT !.net_amount = DecSub(o.total_amount, o.tax_amount)]
    ELSE o

\* the row the store keeps for an instance: the DecimalField columns hold
\* AmountPlaces fractional digits; created_at (auto_now_add) is the time of
\* the insert and is kept by an update
InvoiceRow(o, id) ==
    [o EXCEPT !.id = id,
              !.created_at = IF id \in DOMAIN invoices THEN o.created_at ELSE Time(clock + 1),
              !.total_amount = Quantize(o.total_amount, AmountPlaces),
              !.tax_amount   = Quantize(o.tax_amount, AmountPlaces),
              !.net_amount   = Quantize(o.net_amount, AmountPlaces)]

\* the unique index on invoice_number misses the comparison
InvoiceNumberFreeNoIndex(number, id) == TRUE

\* unique=True on invoice_number: no other row holds this number
InvoiceNumberFree(number, id) ==
    \A j \in DOMAIN invoices \ {id} : invoices[j].invoice_number # number

Put(table, id, row) ==
    [j \in DOMAIN table \cup {id} |-> IF j = id THEN row ELSE table[j]]

Remove(table, ids) == [j \in DOMAIN table \ ids |-> table[j]]

Op(name, w, outcome) == [op |-> name, w |-> w, outcome |-> outcome]

\* a save as the last operation: `before` is the instance as the caller passed it
Saved(name, w, outcome, before) ==
    [op |-> name, w |-> w, outcome |-> outcome, before |-> before]

\* w builds an instance in memory: XRechnungInvoice(**kw)
NewInvoice(w, kw) ==
    /\ inst' = [inst EXCEPT ![w] = XRechnungInvoice(kw)]
    /\ last' = Op("new_invoice", w, "ok")
    /\ UNCHANGED <<invoices, line_items, nextInvoiceId, nextItemId, clock>>
    /\ UNCHANGED confvars

\* w reads a row: XRechnungInvoice.objects.get(pk=pk)
GetInvoice(w, pk) ==
    /\ IF pk \in DOMAIN invoices
       THEN /\ inst' = [inst EXCEPT ![w] = invoices[pk]]
            /\ last' = Op("get_invoice", w, "ok")
       ELSE /\ inst' = inst
            /\ last' = Op("get_invoice", w, "DoesNotExist")
    /\ UNCHANGED <<invoices, line_items, nextInvoiceId, nextItemId, clock>>
    /\ UNCHANGED confvars

\* w assigns an attribute of the invoice instance it holds
SetInvoiceAttr(w, f, value) ==
    /\ inst[w].model = "invoice"
    /\ inst[w][f] # value
    /\ inst' = [inst EXCEPT ![w][f] = value]
    /\ last' = Op("set_attr", w, "ok")
    /\ UNCHANGED <<invoices, line_items, nextInvoiceId, nextItemId, clock>>
    /\ UNCHANGED confvars

\* max_length of currency, the width of its column
CurrencyMaxLength == 3

\* total_amount and tax_amount are columns without null=True
NotNullHolds(o) == o.total_amount # None /\ o.tax_amount # None

\* XRechnungInvoice.save: the derivation, then Model.save. An instance without
\* pk is inserted under the next id; one with a pk is updated, or inserted
\* under its pk when no row has it. The store checks the unique index in the
\* same statement, as it checks NOT NULL, and rejects the write whole.
\* Model.save runs no validator.
\* Whether a text longer than its column is rejected is the store's choice:
\* one that enforces the width (PostgreSQL) raises DataError, one that does
\* not (SQLite) stores the text.
InvoiceSave(w) ==
    /\ inst[w].model = "invoice"
    /\ LET o   == InvoiceDerive(inst[w])
           id  == IF o.id = NoPk THEN nextInvoiceId ELSE o.id
           row == InvoiceRow(o, id)
       IN  \E width_enforced \in BOOLEAN :
           IF width_enforced /\ Len(o.currency) > CurrencyMaxLength
           THEN    /\ inst' = [inst EXCEPT ![w] = o]
                   /\ last' = Saved("save_invoice", w, "DataError", inst[w])
                   /\ UNCHANGED <<invoices, nextInvoiceId, clock>>
           ELSE
           IF InvoiceNumberFree(o.invoice_number, id) /\ NotNullHolds(o)
           THEN    /\ id <= MaxInvoiceId
                   /\ id \notin DOMAIN invoices => clock < MaxClock
                   /\ invoices' = Put(invoices, id, row)
                   /\ nextInvoiceId' = IF o.id = NoPk THEN nextInvoiceId + 1
                                       ELSE nextInvoiceId
                   /\ clock' = IF id \in DOMAIN invoices THEN clock ELSE clock + 1
                   /\ inst' = [inst EXCEPT ![w] =
                                   [o EXCEPT !.id = id, !.created_at = row.created_at]]
                   /\ last' = Saved("save_invoice", w, "ok", inst[w])
           ELSE    /\ inst' = [inst EXCEPT ![w] = o]
                   /\ last' = Saved("save_invoice", w, "IntegrityError", inst[w])
                   /\ UNCHANGED <<invoices, nextInvoiceId, clock>>
    /\ UNCHANGED <<line_items, nextItemId>>
    /\ UNCHANGED confvars

\* the line items on_delete=CASCADE leaves behind when the cascade is missing
CascadeNone(pk) == {}

\* on_delete=models.CASCADE: the line items deleted with invoice pk
Cascade(pk) == {j \in DOMAIN line_items : line_items[j].invoice_id = pk}

\* instance.delete(): the row and, by the cascade, its line items go in one
\* transaction; the instance's pk is set to None
InvoiceDelete(w) ==
    /\ inst[w].model = "invoice"
    /\ inst[w].id # NoPk
    /\ invoices' = Remove(invoices, {inst[w].id})
    /\ line_items' = Remove(line_items, Cascade(inst[w].id))
    /\ inst' = [inst EXCEPT ![w].id = NoPk]
    /\ last' = [op |-> "delete_invoice", w |-> w, outcome |-> "ok", pk |-> inst[w].id,
                 deleted |-> Cardinality(DOMAIN invoices \cap {inst[w].id})
                             + Cardinality(Cascade(inst[w].id))]
    /\ UNCHANGED <<nextInvoiceId, nextItemId, clock>>
    /\ UNCHANGED confvars

(***************************************************************************)
(* XRechnungLineItem: construction, save(), delete(), objects.get().       *)
(***************************************************************************)
\* XRechnungLineItem(**kw): an unsaved instance, omitted fields at their
\* defaults; invoice_id is the pk of the instance passed as invoice=
XRechnungLineItem(kw) ==
    [model       |-> "item",
     id          |-> NoPk,
     invoice_id  |-> kw.invoice_id,
     position    |-> kw.position,
     description |-> kw.description,
     quantity    |-> Kwarg(kw, "quantity", D(1, 0)),
     unit_price  |-> kw.unit_price,
     line_total  |-> Kwarg(kw, "line_total", None),
     tax_rate    |-> Kwarg(kw, "tax_rate", D(1900, 2))]

QuantityPlaces == 3

\* the first two lines of XRechnungLineItem.save
LineItemDerive(o) ==
    IF o.line_total = None /\ Truthy(o.quantity) /\ Truthy(o.unit_price)
    THEN [o EXCEPT !.line_total = DecMul(o.quantity, o.unit_price)]
    ELSE o

\* the row the store keeps for a line item instance
LineItemRow(o, id) ==
    [o EXCEPT !.id = id,
              !.quantity   = Quantize(o.quantity, QuantityPlaces),
              !.unit_price = Quantize(o.unit_price, AmountPlaces),
              !.line_total = Quantize(o.line_total, AmountPlaces),
              !.tax_rate   = Quantize(o.tax_rate, AmountPlaces)]

\* a unique index on position alone
PositionFreeAnyInvoice(invoice_id, position, id) ==
    \A j \in DOMAIN line_items \ {id} : line_items[j].position # position

\* unique_together = ["invoice", "position"]: no other row holds this pair
PositionFree(invoice_id, position, id) ==
    \A j \in DOMAIN line_items \ {id} :
        ~(line_items[j].invoice_id = invoice_id /\ line_items[j].position = position)

\* the foreign key of XRechnungLineItem.invoice: the invoice row exists
InvoiceExists(invoice_id) == invoice_id \in DOMAIN invoices

\* w builds an instance in memory: XRechnungLineItem(**kw)
NewLineItem(w, kw) ==
    /\ inst' = [inst EXCEPT ![w] = XRechnungLineItem(kw)]
    /\ last' = Op("new_item", w, "ok")
    /\ UNCHANGED <<invoices, line_items, nextInvoiceId, nextItemId, clock>>
    /\ UNCHANGED confvars

\* w reads a row: XRechnungLineItem.objects.get(pk=pk)
GetLineItem(w, pk) ==
    /\ IF pk \in DOMAIN line_items
       THEN /\ inst' = [inst EXCEPT ![w] = line_items[pk]]
            /\ last' = Op("get_item", w, "ok")
       ELSE /\ inst' = inst
            /\ last' = Op("get_item", w, "DoesNotExist")
    /\ UNCHANGED <<invoices, line_items, nextInvoiceId, nextItemId, clock>>
    /\ UNCHANGED confvars

\* w assigns an attribute of the line item instance it holds
SetLineItemAttr(w, f, value) ==
    /\ inst[w].model = "item"
    /\ inst[w][f] # value
    /\ inst' = [inst EXCEPT ![w][f] = value]
    /\ last' = Op("set_attr", w, "ok")
    /\ UNCHANGED <<invoices, line_items, nextInvoiceId, nextItemId, clock>>
    /\ UNCHANGED confvars

\* XRechnungLineItem.save: the derivation, then Model.save; the store checks
\* the foreign key and the (invoice, position) index and rejects the write whole
LineItemSave(w) ==
    /\ inst[w].model = "item"
    /\ LET o  == LineItemDerive(inst[w])
           id == IF o.id = NoPk THEN nextItemId ELSE o.id
       IN  IF InvoiceExists(o.invoice_id) /\ PositionFree(o.invoice_id, o.position, id)
           THEN    /\ id <= MaxItemId
                   /\ line_items' = Put(line_items, id, LineItemRow(o, id))
                   /\ nextItemId' = IF o.id = NoPk THEN nextItemId + 1 ELSE nextItemId
                   /\ inst' = [inst EXCEPT ![w] = [o EXCEPT !.id = id]]
                   /\ last' = Saved("save_item", w, "ok", inst[w])
           ELSE    /\ inst' = [inst EXCEPT ![w] = o]
                   /\ last' = Saved("save_item", w, "IntegrityError", inst[w])
                   /\ UNCHANGED <<line_items, nextItemId>>
    /\ UNCHANGED <<invoices, nextInvoiceId, clock>>
    /\ UNCHANGED confvars

\* instance.delete() of a line item
LineItemDelete(w) ==
    /\ inst[w].model = "item"
    /\ inst[w].id # NoPk
    /\ line_items' = Remove(line_items, {inst[w].id})
    /\ inst' = [inst EXCEPT ![w].id = NoPk]
    /\ last' = Op("delete_item", w, "ok")
    /\ UNCHANGED <<invoices, nextInvoiceId, nextItemId, clock>>
    /\ UNCHANGED confvars

(***************************************************************************)
(* XRechnungInvoiceAdmin: the add and change forms.                        *)
(***************************************************************************)
readonly_fields == <<"created_at", "updated_at", "net_amount">>

\* get_readonly_fields that does not extend the list for an existing object
get_readonly_fields_same(obj) == readonly_fields

\* XRechnungInvoiceAdmin.get_readonly_fields(request, obj)
get_readonly_fields(obj) ==
    IF obj # None THEN readonly_fields \o <<"invoice_number">> ELSE readonly_fields

Range(seq) == {seq[k] : k \in DOMAIN seq}

\* the posted values the form takes: a read-only field is no form field
FormData(post, obj) ==
    LET editable == DOMAIN post \ Range(get_readonly_fields(obj))
    IN  [f \in editable |-> post[f]]

\* the change form of the admin for the stored invoice pk: the posted values
\* of the editable fields are set on the object, the form validates
\* uniqueness and the object is saved
AdminChange(pk, post) ==
    /\ pk \in DOMAIN invoices
    /\ LET obj  == invoices[pk]
           data == FormData(post, obj)
           new  == InvoiceDerive([f \in DOMAIN obj |->
                                     IF f \in DOMAIN data THEN data[f] ELSE obj[f]])
       IN  IF InvoiceNumberFree(new.invoice_number, pk)
           THEN /\ invoices' = Put(invoices, pk, InvoiceRow(new, pk))
                /\ last' = [op |-> "admin_change", w |-> "admin", outcome |-> "ok",
                            pk |-> pk, post |-> post]
           ELSE /\ invoices' = invoices
                /\ last' = [op |-> "admin_change", w |-> "admin",
                            outcome |-> "ValidationError", pk |-> pk, post |-> post]
    /\ UNCHANGED <<line_items, nextInvoiceId, nextItemId, clock, inst>>
    /\ UNCHANGED confvars

\* the add form of the admin: a new object from the posted values of the
\* editable fields, validated and saved
AdminAdd(post) ==
    /\ LET new == InvoiceDerive(XRechnungInvoice(FormData(post, None)))
       IN  IF InvoiceNumberFree(new.invoice_number, NoPk)
           THEN /\ nextInvoiceId <= MaxInvoiceId
                /\ clock < MaxClock
                /\ invoices' = Put(invoices, nextInvoiceId, InvoiceRow(new, nextInvoiceId))
                /\ nextInvoiceId' = nextInvoiceId + 1
                /\ clock' = clock + 1
                /\ last' = [op |-> "admin_add", w |-> "admin", outcome |-> "ok",
                            pk |-> nextInvoiceId, post |-> post]
           ELSE /\ UNCHANGED <<invoices, nextInvoiceId, clock>>
                /\ last' = [op |-> "admin_add", w |-> "admin",
                            outcome |-> "ValidationError", pk |-> NoPk, post |-> post]
    /\ UNCHANGED <<line_items, nextItemId, inst>>
    /\ UNCHANGED confvars

(***************************************************************************)
(* The record store under concurrent writers.                              *)
(***************************************************************************)
Numbers == {"INV-1", "INV-2"}

\* strings that are searched are sequences of characters
TestSupplier == <<"T", "e", "s", "t">>

InvoiceKwargsStore ==
    {[invoice_number |-> n, invoice_date |-> Date(1), supplier_name |-> TestSupplier,
      buyer_name |-> "Test Buyer", total_amount |-> D(11900, 2)] : n \in Numbers}

Positions == {1, 2}

LineItemKwargsStore ==
    {[invoice_id |-> i, position |-> p, description |-> "Test Product",
      unit_price |-> D(2500, 2)] : i \in 1..MaxInvoiceId, p \in Positions}

InitStore(W) ==
    /\ invoices = <<>>
    /\ line_items = <<>>
    /\ nextInvoiceId = 1
    /\ nextItemId = 1
    /\ clock = 0
    /\ inst = [w \in W |-> NoObject]
    /\ last = [op |-> "init"]

\* no settings of the app and no pyproject.toml: the configuration loaded
\* at import is the defaults
InitFor(W) ==
    /\ InitStore(W)
    /\ DEFAULT_CONFIG = DefaultConfig
    /\ settings = [defined |-> FALSE]
    /\ pyproject = [exists |-> FALSE]
    /\ tomllib = TRUE
    /\ _config = [is_DEFAULT_CONFIG |-> FALSE, items |-> DefaultConfig]

Init == InitFor(Writers)

\* two writers create, read, renumber, save and delete invoices, and the
\* admin adds and changes them
Next ==
    \/ \E w \in Writers :
        \/ \E kw \in InvoiceKwargsStore : NewInvoice(w, kw)
        \/ \E pk \in 1..MaxInvoiceId : GetInvoice(w, pk)
        \/ \E n \in Numbers : SetInvoiceAttr(w, "invoice_number", n)
        \/ InvoiceSave(w)
        \/ InvoiceDelete(w)
    \/ \E post \in InvoiceKwargsStore : AdminAdd(post)
    \/ \E pk \in 1..MaxInvoiceId, post \in InvoiceKwargsStore : AdminChange(pk, post)

Spec == Init /\ [][Next]_vars

\* one writer works on invoices and their line items
InitItems == InitFor({"w1"})

NextItems ==
    \E w \in {"w1"} :
        \/ \E kw \in InvoiceKwargsStore : NewInvoice(w, kw)
        \/ \E pk \in 1..MaxInvoiceId : GetInvoice(w, pk)
        \/ InvoiceSave(w)
        \/ InvoiceDelete(w)
        \/ \E kw \in LineItemKwargsStore : NewLineItem(w, kw)
        \/ \E pk \in 1..MaxItemId : GetLineItem(w, pk)
        \/ \E p \in Positions : SetLineItemAttr(w, "position", p)
        \/ \E i \in 1..MaxInvoiceId : SetLineItemAttr(w, "invoice_id", i)
        \/ LineItemSave(w)
        \/ LineItemDelete(w)

SpecItems == InitItems /\ [][NextItems]_vars

(***************************************************************************)
(* The derived amounts: one writer, one invoice number, varied amounts.    *)
(***************************************************************************)
\* merge of two keyword records with disjoint names
Merge(a, b) == [f \in DOMAIN a \cup DOMAIN b |-> IF f \in DOMAIN a THEN a[f] ELSE b[f]]

Omitted == <<>>

Totals == {D(11900, 2), D(1050, 2), D(0, 2)}

Taxes == {D(1900, 2), D(0, 2)}

Nets == {D(10000, 2), D(5000, 2)}

InvoiceKwargsAmounts ==
    {Merge([invoice_number |-> "INV-1", invoice_date |-> Date(1), supplier_name |-> TestSupplier,
            buyer_name |-> "Test Buyer", total_amount |-> t], Merge(tax, net)) :
        t \in Totals,
        tax \in {Omitted} \cup {[tax_amount |-> x] : x \in Taxes},
        net \in {Omitted} \cup {[net_amount |-> x] : x \in Nets}}

InitAmounts == InitFor({"w1"})

NextAmounts ==
    \E w \in {"w1"} :
        \/ \E kw \in InvoiceKwargsAmounts : NewInvoice(w, kw)
        \/ \E pk \in 1..MaxInvoiceId : GetInvoice(w, pk)
        \/ \E t \in Totals : SetInvoiceAttr(w, "total_amount", t)
        \/ \E t \in Taxes \cup {None} : SetInvoiceAttr(w, "tax_amount", t)
        \/ \E n \in Nets \cup {None} : SetInvoiceAttr(w, "net_amount", n)
        \/ InvoiceSave(w)

SpecAmounts == InitAmounts /\ [][NextAmounts]_vars

(***************************************************************************)
(* The derived line totals: one writer, one invoice, varied quantities     *)
(* and unit prices.                                                        *)
(***************************************************************************)
Quantities == {D(30, 1), D(500, 3), D(0, 3)}

UnitPrices == {D(2500, 2), D(5, 2), D(0, 2)}

LineTotals == {D(7500, 2)}

LineItemKwargsTotals ==
    {Merge([invoice_id |-> 1, position |-> 1, description |-> "Test Product",
            unit_price |-> u], Merge(q, t)) :
        u \in UnitPrices,
        q \in {Omitted} \cup {[quantity |-> x] : x \in Quantities},
        t \in {Omitted} \cup {[line_total |-> x] : x \in LineTotals}}

InitLineTotals == InitFor({"w1"})

NextLineTotals ==
    \E w \in {"w1"} :
        \/ \E kw \in InvoiceKwargsStore : NewInvoice(w, kw)
        \/ InvoiceSave(w)
        \/ \E kw \in LineItemKwargsTotals : NewLineItem(w, kw)
        \/ \E pk \in 1..MaxItemId : GetLineItem(w, pk)
        \/ \E q \in Quantities : SetLineItemAttr(w, "quantity", q)
        \/ \E t \in LineTotals \cup {None} : SetLineItemAttr(w, "line_total", t)
        \/ LineItemSave(w)

SpecLineTotals == InitLineTotals /\ [][NextLineTotals]_vars

(***************************************************************************)
(* views.py: the JSON and XML endpoints. A request is a record of its      *)
(* method, request.user.is_authenticated and the query parameters.         *)
(***************************************************************************)
Upper == <<"A", "B", "C", "D", "E", "F", "G", "H", "I", "J", "K", "L", "M",
           "N", "O", "P", "Q", "R", "S", "T", "U", "V", "W", "X", "Y", "Z">>

Lower == <<"a", "b", "c", "d", "e", "f", "g", "h", "i", "j", "k", "l", "m",
           "n", "o", "p", "q", "r", "s", "t", "u", "v", "w", "x", "y", "z">>

LowerChar(c) ==
    IF \E k \in DOMAIN Upper : Upper[k] = c
    THEN Lower[CHOOSE k \in DOMAIN Upper : Upper[k] = c]
    ELSE c

LowerCase(str) == [k \in DOMAIN str |-> LowerChar(str[k])]

\* supplier_name__icontains: needle occurs in str, letter case ignored
icontains(str, needle) ==
    \E start \in 0..(Len(str) - Len(needle)) :
        \A k \in 1..Len(needle) :
            LowerChar(str[start + k]) = LowerChar(needle[k])

\* rows in the order of their keys
InvoiceBeforeByPk(a, b) == a.id < b.id

\* Meta.ordering of XRechnungInvoice: a comes before b
InvoiceBefore(a, b) ==
    \/ a.invoice_date.day > b.invoice_date.day
    \/ /\ a.invoice_date.day = b.invoice_date.day
       /\ a.created_at.t > b.created_at.t

\* the rows with the ids S as the store returns them under Meta.ordering
RECURSIVE InvoicesOrdered(_)
InvoicesOrdered(S) ==
    IF S = {} THEN <<>>
    ELSE LET first == CHOOSE i \in S :
                          \A j \in S \ {i} : InvoiceBefore(invoices[i], invoices[j])
         IN  <<invoices[first]>> \o InvoicesOrdered(S \ {first})

\* invoice.line_items.all(): the line items of invoice pk by position
RECURSIVE LineItemsOrdered(_)
LineItemsOrdered(S) ==
    IF S = {} THEN <<>>
    ELSE LET first == CHOOSE i \in S :
                          \A j \in S \ {i} : line_items[i].position < line_items[j].position
         IN  <<line_items[first]>> \o LineItemsOrdered(S \ {first})

JsonResponse(data, status) ==
    [status  |-> status,
     headers |-> [Content_Type |-> "application/json"],
     body    |-> [kind |-> "json", data |-> data]]

\* HttpResponse(content, content_type="application/xml", headers={...})
XmlResponse(content, invoice_number) ==
    [status  |-> 200,
     headers |-> [Content_Type |-> "application/xml",
                  Content_Disposition |->
                      [attachment |-> TRUE,
                       filename |-> <<"invoice_", invoice_number, ".xml">>]],
     body    |-> content]

\* @require_http_methods(["GET"]) answers another method itself
HttpResponseNotAllowed ==
    [status  |-> 405,
     headers |-> [Content_Type |-> "text/html", Allow |-> "GET"],
     body    |-> [kind |-> "text", text |-> ""]]

\* get_object_or_404 found no row
Http404 ==
    [status  |-> 404,
     headers |-> [Content_Type |-> "text/html"],
     body    |-> [kind |-> "text", text |-> "Not Found"]]

AuthenticationRequired == JsonResponse([error |-> "Authentication required"], 401)

InvoiceListEntry(invoice) ==
    [id             |-> invoice.id,
     invoice_number |-> invoice.invoice_number,
     invoice_date   |-> isoformat(invoice.invoice_date),
     supplier_name  |-> invoice.supplier_name,
     buyer_name     |-> invoice.buyer_name,
     total_amount   |-> DecStr(invoice.total_amount),
     currency       |-> invoice.currency]

\* XRechnungInvoiceApiView.invoice_list_api
invoice_list_api(request) ==
    IF request.method # "GET" THEN HttpResponseNotAllowed
    ELSE IF ~request.authenticated THEN AuthenticationRequired
    ELSE LET supplier == IF "supplier" \in DOMAIN request.GET
                         THEN request.GET.supplier ELSE <<>>
             ids  == IF supplier # <<>>
                     THEN {i \in DOMAIN invoices :
                              icontains(invoices[i].supplier_name, supplier)}
                     ELSE DOMAIN invoices
             rows == InvoicesOrdered(ids)
         IN  JsonResponse([invoices |-> [k \in DOMAIN rows |-> InvoiceListEntry(rows[k])]],
                          200)

LineItemEntry(item) ==
    [position    |-> item.position,
     description |-> item.description,
     quantity    |-> DecStr(item.quantity),
     unit_price  |-> DecStr(item.unit_price),
     line_total  |-> DecStr(item.line_total),
     tax_rate    |-> DecStr(item.tax_rate)]

InvoiceDetail(invoice) ==
    LET items == LineItemsOrdered({j \in DOMAIN line_items :
                                      line_items[j].invoice_id = invoice.id})
    IN  [id              |-> invoice.id,
         invoice_number  |-> invoice.invoice_number,
         invoice_date    |-> isoformat(invoice.invoice_date),
         due_date        |-> IF invoice.due_date # None
                             THEN isoformat(invoice.due_date) ELSE None,
         supplier_name   |-> invoice.supplier_name,
         supplier_tax_id |-> invoice.supplier_tax_id,
         buyer_name      |-> invoice.buyer_name,
         buyer_tax_id    |-> invoice.buyer_tax_id,
         total_amount    |-> DecStr(invoice.total_amount),
         tax_amount      |-> DecStr(invoice.tax_amount),
         net_amount      |-> DecStr(invoice.net_amount),
         currency        |-> invoice.currency,
         line_items      |-> [k \in DOMAIN items |-> LineItemEntry(items[k])]]

\* invoice_detail_api answering every caller
invoice_detail_api_public(request, pk) ==
    IF request.method # "GET" THEN HttpResponseNotAllowed
    ELSE IF pk \notin DOMAIN invoices THEN Http404
    ELSE JsonResponse(InvoiceDetail(invoices[pk]), 200)

\* invoice_detail_api that looks the invoice up before it checks the caller
invoice_detail_api_lookup_first(request, pk) ==
    IF request.method # "GET" THEN HttpResponseNotAllowed
    ELSE IF pk \notin DOMAIN invoices THEN Http404
    ELSE IF ~request.authenticated THEN AuthenticationRequired
    ELSE JsonResponse(InvoiceDetail(invoices[pk]), 200)

\* XRechnungInvoiceApiView.invoice_detail_api
invoice_detail_api(request, pk) ==
    IF request.method # "GET" THEN HttpResponseNotAllowed
    ELSE IF ~request.authenticated THEN AuthenticationRequired
    ELSE IF pk \notin DOMAIN invoices THEN Http404
    ELSE JsonResponse(InvoiceDetail(invoices[pk]), 200)

\* the document the export builds when no XML is stored
GeneratedXml(invoice) ==
    [kind |-> "xml",
     root |-> [tag           |-> "Invoice",
               InvoiceNumber |-> invoice.invoice_number,
               InvoiceDate   |-> isoformat(invoice.invoice_date),
               Supplier      |-> [Name  |-> invoice.supplier_name,
                                  TaxID |-> invoice.supplier_tax_id],
               Buyer         |-> [Name  |-> invoice.buyer_name,
                                  TaxID |-> invoice.buyer_tax_id],
               TotalAmount   |-> [currency |-> invoice.currency,
                                  text     |-> DecStr(invoice.total_amount)]]]

\* invoice_xml_export that builds the document whatever is stored
invoice_xml_export_generated(request, pk) ==
    IF request.method # "GET" THEN HttpResponseNotAllowed
    ELSE IF pk \notin DOMAIN invoices THEN Http404
    ELSE XmlResponse(GeneratedXml(invoices[pk]), invoices[pk].invoice_number)

\* invoice_xml_export with the authentication check of its two siblings
invoice_xml_export_authenticated(request, pk) ==
    IF request.method # "GET" THEN HttpResponseNotAllowed
    ELSE IF ~request.authenticated THEN AuthenticationRequired
    ELSE IF pk \notin DOMAIN invoices THEN Http404
    ELSE IF invoices[pk].xml_content # ""
    THEN XmlResponse([kind |-> "text", text |-> invoices[pk].xml_content],
                     invoices[pk].invoice_number)
    ELSE XmlResponse(GeneratedXml(invoices[pk]), invoices[pk].invoice_number)

\* an unhandled exception in a view
HttpResponseServerError ==
    [status  |-> 500,
     headers |-> [Content_Type |-> "text/html"],
     body    |-> [kind |-> "text", text |-> "Server Error"]]

\* invoice_xml_export with objects.filter(pk=pk).first() in place of
\* get_object_or_404: reading a field of None raises
invoice_xml_export_unchecked(request, pk) ==
    IF request.method # "GET" THEN HttpResponseNotAllowed
    ELSE IF pk \notin DOMAIN invoices THEN HttpResponseServerError
    ELSE IF invoices[pk].xml_content # ""
    THEN XmlResponse([kind |-> "text", text |-> invoices[pk].xml_content],
                     invoices[pk].invoice_number)
    ELSE XmlResponse(GeneratedXml(invoices[pk]), invoices[pk].invoice_number)

\* XRechnungInvoiceApiView.invoice_xml_export; the login_required of the class
\* decorates dispatch, which the URL of this static method never runs
invoice_xml_export(request, pk) ==
    IF request.method # "GET" THEN HttpResponseNotAllowed
    ELSE IF pk \notin DOMAIN invoices THEN Http404
    ELSE IF invoices[pk].xml_content # ""
    THEN XmlResponse([kind |-> "text", text |-> invoices[pk].xml_content],
                     invoices[pk].invoice_number)
    ELSE XmlResponse(GeneratedXml(invoices[pk]), invoices[pk].invoice_number)

Answered(name, request, pk, response) ==
    [op |-> name, w |-> "client", request |-> request, pk |-> pk, response |-> response]

\* a client requests api/invoices/
ListRequest(request) ==
    /\ last' = Answered("invoice_list_api", request, NoPk, invoice_list_api(request))
    /\ UNCHANGED <<invoices, line_items, nextInvoiceId, nextItemId, clock, inst>>
    /\ UNCHANGED confvars

\* a client requests api/invoices/<pk>/
DetailRequest(request, pk) ==
    /\ last' = Answered("invoice_detail_api", request, pk, invoice_detail_api(request, pk))
    /\ UNCHANGED <<invoices, line_items, nextInvoiceId, nextItemId, clock, inst>>
    /\ UNCHANGED confvars

\* a client requests api/invoices/<pk>/xml/
XmlExportRequest(request, pk) ==
    /\ last' = Answered("invoice_xml_export", request, pk, invoice_xml_export(request, pk))
    /\ UNCHANGED <<invoices, line_items, nextInvoiceId, nextItemId, clock, inst>>
    /\ UNCHANGED confvars

StoredXml == "<Invoice>stored</Invoice>"

InvoiceKwargsHttp ==
    {Merge([invoice_number |-> n, invoice_date |-> Date(1), supplier_name |-> TestSupplier,
            buyer_name |-> "Test Buyer", total_amount |-> D(11900, 2)], xml) :
        n \in Numbers, xml \in {Omitted, [xml_content |-> StoredXml]}}

Requests ==
    [method : {"GET", "POST"}, authenticated : BOOLEAN,
     GET : {<<>>, [supplier |-> <<"t", "E">>], [supplier |-> <<"x">>]}]

InitHttp == InitFor({"w1"})

NextHttp ==
    \/ \E w \in {"w1"} :
        \/ \E kw \in InvoiceKwargsHttp : NewInvoice(w, kw)
        \/ \E pk \in 1..MaxInvoiceId : GetInvoice(w, pk)
        \/ InvoiceSave(w)
        \/ InvoiceDelete(w)
    \/ \E request \in Requests : ListRequest(request)
    \/ \E request \in Requests, pk \in 1..MaxInvoiceId : DetailRequest(request, pk)
    \/ \E request \in Requests, pk \in 1..MaxInvoiceId : XmlExportRequest(request, pk)

SpecHttp == InitHttp /\ [][NextHttp]_vars

(***************************************************************************)
(* The JSON detail of invoices with and without tax_amount and due_date    *)
(* and with line items.                                                    *)
(***************************************************************************)
InvoiceKwargsDetail ==
    {Merge(Merge([invoice_number |-> n, invoice_date |-> Date(1),
                  supplier_name |-> TestSupplier, buyer_name |-> "Test Buyer",
                  total_amount |-> D(11900, 2)], tax), due) :
        n \in Numbers,
        tax \in {Omitted, [tax_amount |-> D(1900, 2)]},
        due \in {Omitted, [due_date |-> Date(2)]}}

DetailRequests == [method : {"GET"}, authenticated : BOOLEAN, GET : {<<>>}]

InitDetail == InitFor({"w1"})

\* one writer creates invoices and their line items, and clients request
\* the JSON detail
NextDetail ==
    \/ \E w \in {"w1"} :
        \/ \E kw \in InvoiceKwargsDetail : NewInvoice(w, kw)
        \/ InvoiceSave(w)
        \/ \E kw \in LineItemKwargsStore : NewLineItem(w, kw)
        \/ LineItemSave(w)
    \/ \E request \in DetailRequests, pk \in 1..MaxInvoiceId : DetailRequest(request, pk)

SpecDetail == InitDetail /\ [][NextDetail]_vars

(***************************************************************************)
(* Explicit validation: full_clean() of an invoice instance.               *)
(***************************************************************************)
\* RegexValidator that also takes small letters
RegexValidatorAnyCase(value) ==
    /\ Len(value) = 3
    /\ \A k \in 1..3 : \E u \in DOMAIN Upper : value[k] \in {Upper[u], Lower[u]}

\* RegexValidator(r'^[A-Z]{3}$'): re.search finds three capital letters from
\* the start to the end of the text, where `$` is also the place before a
\* newline that ends the text
RegexValidator(value) ==
    LET body == IF Len(value) = 4 /\ value[4] = "\n" THEN SubSeq(value, 1, 3) ELSE value
    IN  /\ Len(body) = 3
        /\ \A k \in 1..3 : \E u \in DOMAIN Upper : body[k] = Upper[u]

\* Field.clean of currency: an empty text is an error of a field that is not
\* blank=True and meets no validator; any other text meets the
\* RegexValidator and the MaxLengthValidator of max_length
CurrencyErrors(value) ==
    IF value = <<>> THEN {"blank"}
    ELSE {code \in {"invalid"} : ~RegexValidator(value)}
         \cup {code \in {"max_length"} : Len(value) > CurrencyMaxLength}

\* Model.full_clean: clean_fields and validate_unique, all errors collected
full_clean(o) ==
    [currency       |-> CurrencyErrors(o.currency),
     invoice_number |-> {code \in {"unique"} :
                            ~InvoiceNumberFree(o.invoice_number, o.id)}]

\* w validates the invoice instance it holds: invoice.full_clean()
FullClean(w) ==
    /\ inst[w].model = "invoice"
    /\ LET errors == full_clean(inst[w])
       IN  last' = [op |-> "full_clean", w |-> w,
                    outcome |-> IF \A f \in DOMAIN errors : errors[f] = {}
                                THEN "ok" ELSE "ValidationError",
                    errors |-> errors, before |-> inst[w]]
    /\ UNCHANGED <<invoices, line_items, nextInvoiceId, nextItemId, clock, inst>>
    /\ UNCHANGED confvars

Currencies ==
    {<<"E", "U", "R", "O">>, <<"e", "u", "r">>, <<"E", "U">>, <<>>,
     <<"E", "U", "R", "\n">>, <<"U", "S", "D">>}

InvoiceKwargsValidation ==
    {Merge([invoice_number |-> n, invoice_date |-> Date(1),
            supplier_name |-> TestSupplier, buyer_name |-> "Test Buyer",
            total_amount |-> D(10000, 2)], currency) :
        n \in Numbers,
        currency \in {Omitted} \cup {[currency |-> c] : c \in Currencies}}

InitValidation == InitFor({"w1"})

\* one writer builds invoices with good and bad currencies, validates them
\* or not, saves and deletes them
NextValidation ==
    \E w \in {"w1"} :
        \/ \E kw \in InvoiceKwargsValidation : NewInvoice(w, kw)
        \/ FullClean(w)
        \/ InvoiceSave(w)
        \/ InvoiceDelete(w)

SpecValidation == InitValidation /\ [][NextValidation]_vars

(***************************************************************************)
(* views.py: XRechnungInvoiceListView, the list page with its filters. The *)
(* value of a query parameter is text: a supplier is a string of letters,  *)
(* a date parameter is the text YYYY-MM-DD of a date, empty, or other text.*)
(***************************************************************************)
EmptyText == [text |-> ""]

MalformedDate == [text |-> "tomorrow"]

InvalidDate == [invalid |-> TRUE]

\* DateField.to_python of a text: the date that YYYY-MM-DD names, no date
\* for any other text
parse_date(text) ==
    IF "iso8601" \in DOMAIN text THEN Date(text.iso8601) ELSE InvalidDate

\* `if supplier:` after request.GET.get("supplier")
SupplierGiven(request) ==
    "supplier" \in DOMAIN request.GET /\ request.GET.supplier # <<>>

\* `if start_date:` and `if end_date:` after request.GET.get(name)
DateGiven(request, name) ==
    name \in DOMAIN request.GET /\ request.GET[name] # EmptyText

\* get_queryset with exclusive date bounds
get_queryset_exclusive(request) ==
    LET start == IF DateGiven(request, "start_date")
                 THEN parse_date(request.GET.start_date) ELSE None
        end   == IF DateGiven(request, "end_date")
                 THEN parse_date(request.GET.end_date) ELSE None
    IN  IF start = InvalidDate \/ end = InvalidDate
        THEN [outcome |-> "ValidationError", rows |-> <<>>]
        ELSE [outcome |-> "ok",
              rows |-> InvoicesOrdered(
                  {i \in DOMAIN invoices :
                      /\ SupplierGiven(request) =>
                             icontains(invoices[i].supplier_name, request.GET.supplier)
                      /\ start # None => invoices[i].invoice_date.day > start.day
                      /\ end # None => invoices[i].invoice_date.day < end.day})]

\* XRechnungInvoiceListView.get_queryset: the default queryset under
\* Meta.ordering, narrowed by each filter that is given; a date text that
\* names no date raises ValidationError in filter()
get_queryset(request) ==
    LET start == IF DateGiven(request, "start_date")
                 THEN parse_date(request.GET.start_date) ELSE None
        end   == IF DateGiven(request, "end_date")
                 THEN parse_date(request.GET.end_date) ELSE None
    IN  IF start = InvalidDate \/ end = InvalidDate
        THEN [outcome |-> "ValidationError", rows |-> <<>>]
        ELSE [outcome |-> "ok",
              rows |-> InvoicesOrdered(
                  {i \in DOMAIN invoices :
                      /\ SupplierGiven(request) =>
                             icontains(invoices[i].supplier_name, request.GET.supplier)
                      /\ start # None => invoices[i].invoice_date.day >= start.day
                      /\ end # None => invoices[i].invoice_date.day <= end.day})]

paginate_by == 20

\* ListView.get: the first page of the queryset, or the server error of an
\* exception that nothing handles
invoice_list(request) ==
    LET queryset == get_queryset(request)
    IN  IF queryset.outcome # "ok" THEN HttpResponseServerError
        ELSE [status  |-> 200,
              headers |-> [Content_Type |-> "text/html"],
              body    |-> [kind |-> "page",
                           invoices |-> SubSeq(queryset.rows, 1,
                                               IF Len(queryset.rows) < paginate_by
                                               THEN Len(queryset.rows) ELSE paginate_by)]]

\* a client requests the list page
ListPageRequest(request) ==
    /\ last' = Answered("invoice_list", request, NoPk, invoice_list(request))
    /\ UNCHANGED <<invoices, line_items, nextInvoiceId, nextItemId, clock, inst>>
    /\ UNCHANGED confvars

AnotherSupplier == <<"A", "n", "o">>

Days == {1, 2}

InvoiceKwargsList ==
    {[invoice_number |-> n, invoice_date |-> Date(d), supplier_name |-> s,
      buyer_name |-> "Test Buyer", total_amount |-> D(11900, 2)] :
        n \in Numbers, d \in Days, s \in {TestSupplier, AnotherSupplier}}

DateTexts == {isoformat(Date(d)) : d \in Days}

\* the list page asks for no login
ListPageRequests ==
    {[method |-> "GET", authenticated |-> FALSE,
      GET |-> Merge(Merge(supplier, start), end)] :
        supplier \in {Omitted, [supplier |-> <<>>], [supplier |-> <<"t", "E">>]},
        start \in {Omitted} \cup {[start_date |-> t] : t \in DateTexts \cup {EmptyText}},
        end \in {Omitted} \cup {[end_date |-> t] : t \in DateTexts \cup {MalformedDate}}}

InitList == InitFor({"w1"})

\* one writer creates and deletes invoices of two suppliers on two days,
\* and clients request the list page with every combination of filters
NextList ==
    \/ \E w \in {"w1"} :
        \/ \E kw \in InvoiceKwargsList : NewInvoice(w, kw)
        \/ InvoiceSave(w)
        \/ InvoiceDelete(w)
    \/ \E request \in ListPageRequests : ListPageRequest(request)

SpecList == InitList /\ [][NextList]_vars

(***************************************************************************)
(* The configuration under every combination of settings, manifest and     *)
(* parser.                                                                 *)
(***************************************************************************)
SettingsMappings ==
    {<<>>,
     [CURRENCY |-> StrValue("USD")],
     [CURRENCY |-> StrValue("USD"), EXTRA |-> IntValue(1)],
     [PAGINATION_SIZE |-> IntValue(50)]}

ManifestMappings ==
    {<<>>,
     [CURRENCY |-> StrValue("CHF")],
     [PAGINATION_SIZE |-> IntValue(10), EXTRA |-> IntValue(2)]}

SettingsChoices ==
    {[defined |-> FALSE]}
    \cup {[defined |-> TRUE, DJANGO_XRECHNUNG |-> m] : m \in SettingsMappings}

\* no file, a file that is not TOML, a file without [tool], one without
\* [tool.django-xrechnung], and files with that table
PyprojectChoices ==
    {[exists |-> FALSE], [exists |-> TRUE, parses |-> FALSE]}
    \cup {[exists |-> TRUE, parses |-> TRUE, data |-> d] :
            d \in {<<>>, [tool |-> <<>>]}
                  \cup {[tool |-> ("django-xrechnung" :> m)] : m \in ManifestMappings}}

ConfigKeys == {"CURRENCY", "PAGINATION_SIZE", "DATE_FORMAT", "EXTRA", "UNKNOWN"}

CallerDefaults == {None, StrValue("fallback")}

InitConfig ==
    /\ InitStore({"w1"})
    /\ DEFAULT_CONFIG = DefaultConfig
    /\ settings \in SettingsChoices
    /\ pyproject \in PyprojectChoices
    /\ tomllib \in BOOLEAN
    /\ _config = [unloaded |-> TRUE]

\* the app loads its configuration and callers read keys of it
NextConfig ==
    \/ XRechnungConfig
    \/ \E key \in ConfigKeys, default \in CallerDefaults : ConfigGet(key, default)

SpecConfig == InitConfig /\ [][NextConfig]_vars

(***************************************************************************)
(* Properties of the record store.                                         *)
(***************************************************************************)
InvoiceNumbersUnique ==
    \A i, j \in DOMAIN invoices :
        i # j => invoices[i].invoice_number # invoices[j].invoice_number

\* a save of an instance whose number another stored invoice holds
DuplicateNumberRejected ==
    (/\ last'.op = "save_invoice"
     /\ \E j \in DOMAIN invoices \ {last'.before.id} :
            invoices[j].invoice_number = last'.before.invoice_number)
    => /\ last'.outcome = "IntegrityError"
       /\ UNCHANGED <<invoices, line_items, nextInvoiceId, nextItemId, clock>>

\* C3: no two stored invoices have the same invoice_number, whatever the
\* writers' creates, updates and deletes and their interleaving; a save whose
\* invoice_number another stored invoice holds ends in the store's
\* IntegrityError and leaves the store as it was
C3_UniqueInvoiceNumber == []InvoiceNumbersUnique /\ [][DuplicateNumberRejected]_vars

\* a create was rejected for a number that the other writer's saved instance holds
C3_Witness ==
    /\ last.op = "save_invoice"
    /\ last.outcome = "IntegrityError"
    /\ last.before.id = NoPk
    /\ \E w2 \in DOMAIN inst \ {last.w} :
        /\ inst[w2].model = "invoice"
        /\ inst[w2].id \in DOMAIN invoices
        /\ inst[w2].invoice_number = last.before.invoice_number
        /\ invoices[inst[w2].id].invoice_number = last.before.invoice_number

PositionsUnique ==
    \A i, j \in DOMAIN line_items :
        i # j => ~(/\ line_items[i].invoice_id = line_items[j].invoice_id
                   /\ line_items[i].position = line_items[j].position)

\* a save of a line item: rejected when another row holds its (invoice,
\* position) pair, stored when none does and the invoice exists
PositionPairDecides ==
    last'.op = "save_item" =>
        LET b     == last'.before
            taken == \E j \in DOMAIN line_items \ {b.id} :
                        /\ line_items[j].invoice_id = b.invoice_id
                        /\ line_items[j].position = b.position
        IN  /\ taken => /\ last'.outcome = "IntegrityError"
                        /\ UNCHANGED <<invoices, line_items, nextInvoiceId, nextItemId>>
            /\ (~taken /\ b.invoice_id \in DOMAIN invoices) =>
                   /\ last'.outcome = "ok"
                   /\ \E j \in DOMAIN line_items' :
                        /\ line_items'[j].invoice_id = b.invoice_id
                        /\ line_items'[j].position = b.position

\* C4: no two stored line items of one invoice have the same position; a save
\* with an (invoice, position) pair another row holds ends in an
\* IntegrityError and leaves the store unchanged, and the same position under
\* another invoice is stored
C4_UniquePositionPerInvoice == []PositionsUnique /\ [][PositionPairDecides]_vars

\* a create was rejected for a taken pair while two stored line items of
\* different invoices share a position
C4_Witness ==
    /\ last.op = "save_item"
    /\ last.outcome = "IntegrityError"
    /\ last.before.id = NoPk
    /\ \E j \in DOMAIN line_items :
        /\ line_items[j].invoice_id = last.before.invoice_id
        /\ line_items[j].position = last.before.position
    /\ \E i, j \in DOMAIN line_items :
        /\ line_items[i].position = line_items[j].position
        /\ line_items[i].invoice_id # line_items[j].invoice_id

LineItemsBelong == \A j \in DOMAIN line_items : line_items[j].invoice_id \in DOMAIN invoices

\* the delete of invoice pk takes the invoice and exactly its line items
DeleteCascades ==
    last'.op = "delete_invoice" =>
        LET kept == {j \in DOMAIN line_items : line_items[j].invoice_id # last'.pk}
        IN  /\ invoices' = [i \in DOMAIN invoices \ {last'.pk} |-> invoices[i]]
            /\ line_items' = [j \in kept |-> line_items[j]]

\* C5: every stored line item refers to a stored invoice; the delete of an
\* invoice removes its line items in the same step and leaves every other
\* invoice and every line item of another invoice as it was
C5_CascadeKeepsReferences == []LineItemsBelong /\ [][DeleteCascades]_vars

\* an invoice was deleted together with a line item while a line item of
\* another invoice stays
C5_Witness ==
    /\ last.op = "delete_invoice"
    /\ last.deleted >= 2
    /\ line_items # <<>>
    /\ invoices # <<>>

\* C6 as claimed: no step changes the invoice_number of a stored invoice
C6_InvoiceNumberImmutable ==
    [][\A pk \in DOMAIN invoices \cap DOMAIN invoices' :
           invoices'[pk].invoice_number = invoices[pk].invoice_number]_vars

\* only a model save of an instance with this pk changes a stored number, and
\* a model save stores the number of its instance
NumberFollowsModelSave ==
    /\ \A pk \in DOMAIN invoices \cap DOMAIN invoices' :
           invoices'[pk].invoice_number # invoices[pk].invoice_number =>
               /\ last'.op = "save_invoice"
               /\ last'.before.id = pk
    /\ (last'.op = "save_invoice" /\ last'.outcome = "ok") =>
           \E pk \in DOMAIN invoices' :
               /\ last'.before.id \in {NoPk, pk}
               /\ inst'[last'.w].id = pk
               /\ invoices'[pk].invoice_number = last'.before.invoice_number

\* C6: a change form of the admin never changes the invoice_number of a
\* stored invoice, whatever number is posted; a model save of an instance
\* that carries another number stores that number
C6_NumberChangedOnlyByModelSave == [][NumberFollowsModelSave]_vars

\* the admin's change form was posted with another number and the stored
\* number stayed
C6_Witness ==
    /\ last.op = "admin_change"
    /\ last.outcome = "ok"
    /\ last.pk \in DOMAIN invoices
    /\ last.post.invoice_number # invoices[last.pk].invoice_number

(***************************************************************************)
(* Properties of the derived amounts.                                      *)
(***************************************************************************)
\* the last operation is a stored save of an invoice by its writer
InvoiceSaved == last.op = "save_invoice" /\ last.outcome = "ok"

\* C1 as claimed: an invoice saved with net_amount None and with values for
\* total_amount and tax_amount (tax_amount at its default 0 when omitted) is
\* stored with net_amount = total_amount - tax_amount
C1_NetAmountDerived ==
    (/\ InvoiceSaved
     /\ last.before.net_amount = None
     /\ last.before.total_amount # None
     /\ last.before.tax_amount # None)
    => DecEq(invoices[inst[last.w].id].net_amount,
             DecSub(last.before.total_amount, last.before.tax_amount))

\* the last operation is a stored save of a line item
LineItemSaved == last.op = "save_item" /\ last.outcome = "ok"

\* C2 as claimed: a line item saved with line_total None and with values for
\* quantity and unit_price is stored with line_total = quantity * unit_price
C2_LineTotalDerived ==
    (/\ LineItemSaved
     /\ last.before.line_total = None
     /\ last.before.quantity # None
     /\ last.before.unit_price # None)
    => DecEq(line_items[inst[last.w].id].line_total,
             DecMul(last.before.quantity, last.before.unit_price))

\* a save keeps a net_amount that is not None, in the instance and in the
\* row, and sets one only from None, to total_amount - tax_amount as they
\* are at that save
NetAmountKeptBySave ==
    last.op = "save_invoice" =>
        LET b == last.before
            o == inst[last.w]
        IN  /\ b.net_amount # None =>
                /\ o.net_amount = b.net_amount
                /\ last.outcome = "ok" =>
                       invoices[o.id].net_amount = Quantize(b.net_amount, AmountPlaces)
            /\ o.net_amount # b.net_amount =>
                /\ b.net_amount = None
                /\ o.net_amount = DecSub(b.total_amount, b.tax_amount)
                /\ last.outcome = "ok" =>
                       DecEq(invoices[o.id].net_amount,
                             DecSub(b.total_amount, b.tax_amount))

\* a save of an instance that carries the stored net_amount leaves the
\* stored net_amount as it is, whatever total_amount and tax_amount it carries
StoredNetAmountKept ==
    (/\ last'.op = "save_invoice"
     /\ last'.outcome = "ok"
     /\ last'.before.id \in DOMAIN invoices
     /\ invoices[last'.before.id].net_amount # None
     /\ last'.before.net_amount = invoices[last'.before.id].net_amount)
    => invoices'[last'.before.id].net_amount = invoices[last'.before.id].net_amount

\* C7: once net_amount is not None every save leaves it unchanged, also
\* with total_amount or tax_amount changed or inconsistent with it; a save
\* sets net_amount only when the caller has set it back to None, and then
\* from the current total_amount and tax_amount
C7_NetAmountNotRecomputed == []NetAmountKeptBySave /\ [][StoredNetAmountKept]_vars

\* a stored invoice was saved again with a net_amount that differs from
\* total_amount - tax_amount, both of them non-zero, and differs from them
\* in the row as well
C7_Witness ==
    /\ InvoiceSaved
    /\ last.before.id # NoPk
    /\ last.before.net_amount # None
    /\ Truthy(last.before.total_amount)
    /\ Truthy(last.before.tax_amount)
    /\ ~DecEq(last.before.net_amount,
              DecSub(last.before.total_amount, last.before.tax_amount))
    /\ ~DecEq(invoices[last.before.id].net_amount,
              DecSub(invoices[last.before.id].total_amount,
                     invoices[last.before.id].tax_amount))

(***************************************************************************)
(* Properties of the endpoints.                                            *)
(***************************************************************************)
\* the last operation is a GET of the named endpoint
Got(name) == last.op = name /\ last.request.method = "GET"

\* the body of an export of a stored invoice: the stored XML as it is, or
\* the generated document with the fields of the invoice
XmlExportBody ==
    (Got("invoice_xml_export") /\ last.pk \in DOMAIN invoices) =>
        LET invoice == invoices[last.pk]
            body    == last.response.body
        IN  IF invoice.xml_content # ""
            THEN body = [kind |-> "text", text |-> invoice.xml_content]
            ELSE /\ body.kind = "xml"
                 /\ body.root.InvoiceNumber = invoice.invoice_number
                 /\ body.root.InvoiceDate = [iso8601 |-> invoice.invoice_date.day]
                 /\ body.root.Supplier = [Name  |-> invoice.supplier_name,
                                          TaxID |-> invoice.supplier_tax_id]
                 /\ body.root.Buyer = [Name  |-> invoice.buyer_name,
                                       TaxID |-> invoice.buyer_tax_id]
                 /\ body.root.TotalAmount.currency = invoice.currency
                 /\ body.root.TotalAmount.text =
                        [negative |-> FALSE,
                         int      |-> invoice.total_amount.v \div 100,
                         places   |-> 2,
                         frac     |-> invoice.total_amount.v % 100]

\* an export changes no table
XmlExportReadsOnly ==
    last'.op = "invoice_xml_export" =>
        UNCHANGED <<invoices, line_items, nextInvoiceId, nextItemId, clock>>

\* C8: the XML export of a stored invoice returns the stored xml_content as
\* it is when that is not empty, and otherwise a generated document with
\* the invoice_number, invoice_date, supplier and buyer name and tax id and
\* the total_amount with the currency as attribute; it writes nothing
C8_XmlExportContent == []XmlExportBody /\ [][XmlExportReadsOnly]_vars

\* a document was generated for a stored invoice without xml_content, which
\* still has none
C8_Witness ==
    /\ Got("invoice_xml_export")
    /\ last.pk \in DOMAIN invoices
    /\ invoices[last.pk].xml_content = ""
    /\ last.response.status = 200
    /\ last.response.body.kind = "xml"

\* C9: a GET of the JSON list or detail endpoint by an unauthenticated
\* caller is answered 401 with the error body and nothing else; by an
\* authenticated caller it is answered 200 with the JSON payload, the list
\* under the key invoices, the detail for a stored invoice
C9_JsonEndpointsRequireAuth ==
    (Got("invoice_list_api") \/ Got("invoice_detail_api")) =>
        LET r == last.response
        IN  IF ~last.request.authenticated
            THEN /\ r.status = 401
                 /\ r.headers.Content_Type = "application/json"
                 /\ r.body = [kind |-> "json",
                              data |-> [error |-> "Authentication required"]]
            ELSE /\ last.op = "invoice_list_api" =>
                     /\ r.status = 200
                     /\ r.headers.Content_Type = "application/json"
                     /\ r.body.kind = "json"
                     /\ DOMAIN r.body.data = {"invoices"}
                     /\ {e.id : e \in Range(r.body.data.invoices)} \subseteq DOMAIN invoices
                     /\ last.request.GET = <<>> =>
                            /\ Len(r.body.data.invoices) = Cardinality(DOMAIN invoices)
                            /\ \A i \in DOMAIN invoices :
                                   \E e \in Range(r.body.data.invoices) :
                                       /\ e.id = i
                                       /\ e.invoice_number = invoices[i].invoice_number
                 /\ (last.op = "invoice_detail_api" /\ last.pk \in DOMAIN invoices) =>
                     /\ r.status = 200
                     /\ r.headers.Content_Type = "application/json"
                     /\ r.body.kind = "json"
                     /\ r.body.data.id = last.pk
                     /\ r.body.data.invoice_number = invoices[last.pk].invoice_number

\* an unauthenticated caller asked for the detail of a stored invoice and
\* was answered 401
C9_Witness ==
    /\ Got("invoice_detail_api")
    /\ ~last.request.authenticated
    /\ last.pk \in DOMAIN invoices
    /\ last.response.status = 401

\* C10: the XML export of a stored invoice answers an unauthenticated and an
\* authenticated GET alike: 200, application/xml and the attachment
\* invoice_{invoice_number}.xml, with stored and with generated XML
C10_XmlExportIgnoresAuth ==
    (Got("invoice_xml_export") /\ last.pk \in DOMAIN invoices) =>
        LET r     == last.response
            other == [last.request EXCEPT !.authenticated = ~@]
        IN  /\ r.status = 200
            /\ r.headers.Content_Type = "application/xml"
            /\ r.headers.Content_Disposition =
                   [attachment |-> TRUE,
                    filename |-> <<"invoice_", invoices[last.pk].invoice_number, ".xml">>]
            /\ r = invoice_xml_export(other, last.pk)

\* an unauthenticated caller was answered 200 with the stored XML
C10_Witness ==
    /\ Got("invoice_xml_export")
    /\ ~last.request.authenticated
    /\ last.pk \in DOMAIN invoices
    /\ invoices[last.pk].xml_content # ""
    /\ last.response.status = 200
    /\ last.response.body.kind = "text"

\* a lookup of an identifier without a stored invoice is answered 404
NotFoundForAbsent ==
    /\ (Got("invoice_xml_export") /\ last.pk \notin DOMAIN invoices) =>
           /\ last.response.status = 404
           /\ last.response.body.kind = "text"
    /\ (Got("invoice_detail_api") /\ last.request.authenticated
           /\ last.pk \notin DOMAIN invoices) =>
           /\ last.response.status = 404
           /\ last.response.body.kind = "text"

\* a lookup changes no table
LookupReadsOnly ==
    last'.op \in {"invoice_xml_export", "invoice_detail_api"} =>
        UNCHANGED <<invoices, line_items, nextInvoiceId, nextItemId, clock>>

\* C11: a GET of the XML export by any caller, and of the JSON detail by an
\* authenticated caller, for an identifier without a stored invoice is
\* answered 404 and changes no table; the identifier of an invoice that was
\* stored and has been deleted is such an identifier
C11_NotFoundForAbsentInvoice == []NotFoundForAbsent /\ [][LookupReadsOnly]_vars

\* the export was asked for the identifier of an invoice that was stored
\* and has been deleted, and answered 404
C11_Witness ==
    /\ Got("invoice_xml_export")
    /\ last.pk \notin DOMAIN invoices
    /\ last.pk < nextInvoiceId
    /\ last.response.status = 404

\* C18: an unauthenticated GET of the JSON detail is answered 401 whatever
\* the identifier, the same response for a stored and for an absent
\* invoice, and 404 is answered to authenticated callers only
C18_AuthPrecedesLookup ==
    Got("invoice_detail_api") =>
        LET r == last.response
        IN  /\ ~last.request.authenticated =>
                   /\ r.status = 401
                   /\ \A pk \in 1..MaxInvoiceId :
                          invoice_detail_api(last.request, pk) = r
            /\ r.status = 404 => last.request.authenticated

\* an unauthenticated caller asked for an identifier without an invoice,
\* while another invoice is stored, and was answered 401
C18_Witness ==
    /\ Got("invoice_detail_api")
    /\ ~last.request.authenticated
    /\ last.pk \notin DOMAIN invoices
    /\ DOMAIN invoices # {}
    /\ last.response.status = 401

(***************************************************************************)
(* Properties of the list page.                                            *)
(***************************************************************************)
\* the last operation is a request of the list page whose date filters,
\* where given, name dates
ListedWithDates ==
    /\ last.op = "invoice_list"
    /\ \A name \in {"start_date", "end_date"} \cap DOMAIN last.request.GET :
           \/ last.request.GET[name] = [text |-> ""]
           \/ "iso8601" \in DOMAIN last.request.GET[name]

\* C12: the list holds exactly the stored invoices that pass every filter
\* given, each once: supplier_name contains the supplier text whatever the
\* letter case, invoice_date >= start_date, invoice_date <= end_date; a
\* filter that is absent or empty excludes nothing
C12_ListFilters ==
    ListedWithDates =>
        LET GET  == last.request.GET
            rows == last.response.body.invoices
            kept == {i \in DOMAIN invoices :
                       /\ ("supplier" \in DOMAIN GET /\ GET.supplier # <<>>) =>
                              icontains(invoices[i].supplier_name, GET.supplier)
                       /\ ("start_date" \in DOMAIN GET /\ GET.start_date # [text |-> ""]) =>
                              invoices[i].invoice_date.day >= GET.start_date.iso8601
                       /\ ("end_date" \in DOMAIN GET /\ GET.end_date # [text |-> ""]) =>
                              invoices[i].invoice_date.day <= GET.end_date.iso8601}
        IN  /\ last.response.status = 200
            /\ Len(rows) = Cardinality(kept)
            /\ {r.id : r \in Range(rows)} = kept
            /\ \A r \in Range(rows) : r = invoices[r.id]

\* all three filters were given, two invoices are stored, and the list
\* holds the one that passes, whose invoice_date is the start_date itself
C12_Witness ==
    /\ ListedWithDates
    /\ DOMAIN last.request.GET = {"supplier", "start_date", "end_date"}
    /\ last.request.GET.supplier # <<>>
    /\ "iso8601" \in DOMAIN last.request.GET.start_date
    /\ "iso8601" \in DOMAIN last.request.GET.end_date
    /\ Cardinality(DOMAIN invoices) = 2
    /\ Len(last.response.body.invoices) = 1
    /\ last.response.body.invoices[1].invoice_date.day =
           last.request.GET.start_date.iso8601

\* C17: in every list that is returned, with or without filters, an invoice
\* with a later invoice_date comes before one with an earlier, and of two
\* invoices with the same invoice_date the one created later comes first
C17_ListOrder ==
    (last.op = "invoice_list" /\ last.response.status = 200) =>
        LET rows == last.response.body.invoices
        IN  \A k, l \in DOMAIN rows :
                k < l =>
                    \/ rows[k].invoice_date.day > rows[l].invoice_date.day
                    \/ /\ rows[k].invoice_date.day = rows[l].invoice_date.day
                       /\ rows[k].created_at.t > rows[l].created_at.t

\* a filtered list of two invoices of one invoice_date, the later created
\* first
C17_Witness ==
    /\ last.op = "invoice_list"
    /\ last.response.status = 200
    /\ "supplier" \in DOMAIN last.request.GET
    /\ last.request.GET.supplier # <<>>
    /\ Len(last.response.body.invoices) = 2
    /\ last.response.body.invoices[1].invoice_date =
           last.response.body.invoices[2].invoice_date
    /\ last.response.body.invoices[1].created_at.t >
           last.response.body.invoices[2].created_at.t

(***************************************************************************)
(* Properties of the JSON detail.                                          *)
(***************************************************************************)
\* text is the decimal string of the stored value x, digit for digit, and
\* null where no value is stored
ExactDecimalString(text, x) ==
    IF x = None THEN text = None
    ELSE LET a == IF x.v < 0 THEN -x.v ELSE x.v
         IN  text = [negative |-> x.v < 0, int |-> a \div Pow10(x.dp),
                     places |-> x.dp, frac |-> a % Pow10(x.dp)]

\* C13 as claimed: the JSON detail of a stored invoice gives total_amount,
\* tax_amount and net_amount as the exact decimal strings of the stored
\* values, due_date as ISO-8601 text or null when none is stored, and one
\* projection for each line item of this invoice and for no other
C13_DetailProjection ==
    (Got("invoice_detail_api") /\ last.request.authenticated
        /\ last.pk \in DOMAIN invoices) =>
        LET data    == last.response.body.data
            invoice == invoices[last.pk]
            owned   == {j \in DOMAIN line_items : line_items[j].invoice_id = last.pk}
        IN  /\ ExactDecimalString(data.total_amount, invoice.total_amount)
            /\ ExactDecimalString(data.tax_amount, invoice.tax_amount)
            /\ ExactDecimalString(data.net_amount, invoice.net_amount)
            /\ IF invoice.due_date = None THEN data.due_date = None
               ELSE data.due_date = [iso8601 |-> invoice.due_date.day]
            /\ Len(data.line_items) = Cardinality(owned)
            /\ {e.position : e \in Range(data.line_items)} =
                   {line_items[j].position : j \in owned}

(***************************************************************************)
(* Properties of validation.                                               *)
(***************************************************************************)
\* text matches ^[A-Z]{3}$: three capital letters and nothing else
ThreeCapitals(text) ==
    /\ Len(text) = 3
    /\ \A k \in 1..3 : text[k] \in Range(Upper)

\* full_clean of an invoice whose other fields are valid, the invoice_number
\* held by no other stored invoice, fails with ValidationError exactly when
\* the currency is not three capital letters
FullCleanChecksCurrency ==
    (/\ last.op = "full_clean"
     /\ \A j \in DOMAIN invoices \ {last.before.id} :
            invoices[j].invoice_number # last.before.invoice_number)
    => (last.outcome = "ValidationError" <=> ~ThreeCapitals(last.before.currency))

\* C14 as claimed: full_clean fails exactly when the currency does not match,
\* and a save without validation, its invoice_number free, stores the
\* invoice with the currency it was given, whatever that is
C14_SaveStoresAnyCurrency ==
    /\ FullCleanChecksCurrency
    /\ (last.op = "save_invoice" /\ last.outcome # "IntegrityError") =>
           /\ last.outcome = "ok"
           /\ invoices[inst[last.w].id].currency = last.before.currency

\* a save checks no currency: what it stores has the currency given, it
\* fails only for a taken invoice_number or, in a store that enforces the
\* width of the column, for a currency of more than three characters
SaveChecksNoCurrency ==
    last.op = "save_invoice" =>
        /\ last.outcome \in {"ok", "IntegrityError", "DataError"}
        /\ last.outcome = "ok" =>
               invoices[inst[last.w].id].currency = last.before.currency
        /\ last.outcome = "IntegrityError" =>
               \E j \in DOMAIN invoices \ {last.before.id} :
                   invoices[j].invoice_number = last.before.invoice_number
        /\ last.outcome = "DataError" =>
               Len(last.before.currency) > 3

\* C14: full_clean fails exactly when the currency does not match
\* ^[A-Z]{3}$, the other fields valid; a save without validation checks no
\* currency and stores a currency of up to three characters as given,
\* matching or not; a longer one is stored as given or rejected by the
\* store with a data error, by the store's enforcement of the column width
C14_ValidationOnlyExplicit == FullCleanChecksCurrency /\ SaveChecksNoCurrency

\* an invoice was saved without validation and is stored with a currency
\* of three characters that full_clean rejects
C14_Witness ==
    /\ InvoiceSaved
    /\ Len(last.before.currency) = 3
    /\ ~ThreeCapitals(last.before.currency)
    /\ invoices[inst[last.w].id].currency = last.before.currency
    /\ full_clean(last.before).currency # {}

(***************************************************************************)
(* Properties of the configuration.                                        *)
(***************************************************************************)
\* the keys and values DJANGO_XRECHNUNG defines
SettingsSource == IF settings.defined THEN settings.DJANGO_XRECHNUNG ELSE <<>>

\* the keys and values [tool.django-xrechnung] of pyproject.toml defines
ManifestSource ==
    IF /\ pyproject.exists
       /\ pyproject.parses
       /\ "tool" \in DOMAIN pyproject.data
       /\ "django-xrechnung" \in DOMAIN pyproject.data.tool
    THEN pyproject.data.tool["django-xrechnung"]
    ELSE <<>>

\* the value of key from the last of defaults, settings and manifest that
\* defines it, the caller's default when none does
LastDefined(manifest, key, default) ==
    IF key \in DOMAIN manifest THEN manifest[key]
    ELSE IF key \in DOMAIN SettingsSource THEN SettingsSource[key]
    ELSE IF key \in DOMAIN DefaultConfig THEN DefaultConfig[key]
    ELSE default

\* C15 as claimed: every key resolves to the value of the last of defaults,
\* settings and manifest that defines it, a key that none defines to the
\* caller's default, and loading leaves DEFAULT_CONFIG as it is
C15_ConfigMerge ==
    /\ DEFAULT_CONFIG = DefaultConfig
    /\ last.op = "config_get" =>
           last.value = LastDefined(ManifestSource, last.key, last.default)

\* C15: with a TOML parser to import, every key resolves to the value of
\* the last of defaults, settings and manifest that defines it; without
\* one the manifest is left out and the last of defaults and settings
\* decides; a key that no source read defines resolves to the caller's
\* default, and loading leaves DEFAULT_CONFIG as it is
C15_ConfigMergeOfReadSources ==
    /\ DEFAULT_CONFIG = DefaultConfig
    /\ last.op = "config_get" =>
           last.value = LastDefined(IF tomllib THEN ManifestSource ELSE <<>>,
                                    last.key, last.default)

\* a key that defaults, settings and manifest all define was read and has
\* the value of the manifest
C15_Witness ==
    /\ last.op = "config_get"
    /\ tomllib
    /\ last.key \in DOMAIN DefaultConfig
    /\ last.key \in DOMAIN SettingsSource
    /\ last.key \in DOMAIN ManifestSource
    /\ last.value = ManifestSource[last.key]
    /\ last.value # SettingsSource[last.key]

(***************************************************************************)
(* The derivation of net_amount as the code has it.                        *)
(***************************************************************************)
\* x is present and not zero
PresentNonZero(x) == x # None /\ x.v # 0

====
